---- MODULE Spec2Model ----
(***************************************************************************)
(* Model of mtcnn/network/matcnn_pytorch.py: the shared base class _Net    *)
(* (constructor, get_loss and the three masked losses) and its three       *)
(* variants PNet, RNet and ONet.                                           *)
(*                                                                         *)
(* Numbers.  A loss value is a real number of the form                     *)
(*     (l2 * ln 2 + l3 * ln 3 + one) / den                                 *)
(* kept exactly as a record of four integers (1, ln 2 and ln 3 are         *)
(* linearly independent over the rationals), or NaN.  Classification       *)
(* scores are the sigmoid outputs q/4 with q in 1..3, so every binary      *)
(* cross-entropy term is an integer combination of ln 2 and ln 3.          *)
(* Factors are rationals <<numerator, denominator>>.  Arithmetic is real   *)
(* arithmetic: floating-point rounding is not modelled.                    *)
(*                                                                         *)
(* Tensors.  Every tensor handed to the network is two-dimensional, a      *)
(* sequence of N >= 2 rows: labels (N,1), box offsets (N,4), landmarks     *)
(* (N,10).  torch.squeeze leaves (N,4) and (N,10) alone and turns (N,1)    *)
(* into the vector (N).  The layers' arithmetic is abstracted: forward     *)
(* maps each abstract image of the batch to fixed outputs of the three     *)
(* heads (one detection per image).                                        *)
(* A batch of a single row is not modelled: squeeze would drop its batch   *)
(* dimension as well, and the row indexing of box_loss and landmark_loss   *)
(* is not defined on the resulting vector.  The mean over no selected      *)
(* element is NaN.                                                         *)
(***************************************************************************)
EXTENDS Integers, Sequences, FiniteSets, TLC

\* Largest batch (number of rows N) the callers pass.
MaxBatch == 2

BatchSizes == 2..MaxBatch

Variants == {"PNet", "RNet", "ONet"}
Devices == {"cpu", "cuda"}

\* Ground-truth labels: 1 positive, 0 negative, -1 part face, -2 landmark.
Labels == {-2, -1, 0, 1}

\* Width of a box-offset row and of a landmark row.
BoxDim == 4
LandDim == 10

----------------------------------------------------------------------------
(* Real numbers                                                            *)

NaN == [nan |-> TRUE, l2 |-> 0, l3 |-> 0, one |-> 0, den |-> 1]

Real(a, b, c, d) == [nan |-> FALSE, l2 |-> a, l3 |-> b, one |-> c, den |-> d]

\* v * f for a rational f = <<n, d>>.
Mul(v, f) ==
    IF v.nan THEN NaN
    ELSE Real(v.l2 * f[1], v.l3 * f[1], v.one * f[1], v.den * f[2])

\* v + w.
Add(v, w) ==
    IF v.nan \/ w.nan THEN NaN
    ELSE Real(v.l2 * w.den + w.l2 * v.den,
              v.l3 * w.den + w.l3 * v.den,
              v.one * w.den + w.one * v.den,
              v.den * w.den)

\* The two values are the same number (NaN counts as the one NaN outcome).
Same(v, w) ==
    IF v.nan \/ w.nan THEN v.nan /\ w.nan
    ELSE /\ v.l2 * w.den = w.l2 * v.den
         /\ v.l3 * w.den = w.l3 * v.den
         /\ v.one * w.den = w.one * v.den

RECURSIVE SumTo(_, _)
SumTo(f, n) == IF n = 0 THEN 0 ELSE f[n] + SumTo(f, n - 1)

\* -ln(q/4) = 2 ln 2 - ln q as <<coefficient of ln 2, coefficient of ln 3>>.
NegLog(q) == IF q = 1 THEN <<2, 0>> ELSE IF q = 2 THEN <<1, 0>> ELSE <<2, -1>>

\* One term of the binary cross-entropy: -(y ln p + (1 - y) ln(1 - p)), p = q/4.
BCETerm(q, y) ==
    <<y * NegLog(q)[1] + (1 - y) * NegLog(4 - q)[1],
      y * NegLog(q)[2] + (1 - y) * NegLog(4 - q)[2]>>

\* nn.BCELoss(): the mean of the terms; the mean of no terms is NaN.
BCELoss(input, target) ==
    LET n == Len(input) IN
    IF n = 0 THEN NaN
    ELSE Real(SumTo([i \in 1..n |-> BCETerm(input[i], target[i])[1]], n),
              SumTo([i \in 1..n |-> BCETerm(input[i], target[i])[2]], n),
              0, n)

\* Sum of the squared differences of two rows.
RowSqErr(a, b) == SumTo([j \in 1..Len(a) |-> (a[j] - b[j]) * (a[j] - b[j])], Len(a))

\* nn.MSELoss(): the mean over all elements of the rows; NaN over no rows.
MSELoss(input, target, width) ==
    LET n == Len(input) IN
    IF n = 0 THEN NaN
    ELSE Real(0, 0, SumTo([i \in 1..n |-> RowSqErr(input[i], target[i])], n),
              n * width)

----------------------------------------------------------------------------
(* Tensor operations                                                       *)

RECURSIVE flatten(_, _)
flatten(t, n) == IF n = 0 THEN <<>> ELSE flatten(t, n - 1) \o t[n]

\* Tensor.view(-1, w): the elements in order, regrouped in rows of w.
view(t, w) ==
    LET f == flatten(t, Len(t)) IN
    [i \in 1..(Len(f) \div w) |-> SubSeq(f, (i - 1) * w + 1, i * w)]

\* torch.squeeze on a two-dimensional tensor of two or more rows: a column
\* (N,1) becomes the vector (N); wider matrices are unchanged.
squeeze(t) ==
    IF Len(t) > 0 /\ \A i \in 1..Len(t) : Len(t[i]) = 1
    THEN [i \in 1..Len(t) |-> t[i][1]]
    ELSE t

\* torch.ge(t, c) and torch.eq(t, c): elementwise, 1 for true and 0 for false.
ge(t, c) == [i \in 1..Len(t) |-> IF t[i] >= c THEN 1 ELSE 0]
eq(t, c) == [i \in 1..Len(t) |-> IF t[i] = c THEN 1 ELSE 0]

RECURSIVE select(_, _, _)
select(t, mask, n) ==
    IF n = 0 THEN <<>>
    ELSE IF mask[n] = 1 THEN Append(select(t, mask, n - 1), t[n])
    ELSE select(t, mask, n - 1)

\* torch.masked_select(t, mask): the elements under the mask, in order.
masked_select(t, mask) == select(t, mask, Len(t))

\* torch.squeeze(torch.nonzero(mask)): the indices under the mask, ascending.
nonzero(mask) == select([i \in 1..Len(mask) |-> i], mask, Len(mask))

\* t[chose_index, :]: the rows of t at the indices.
rows(t, chose_index) == [k \in 1..Len(chose_index) |-> t[chose_index[k]]]

----------------------------------------------------------------------------
(* The network                                                             *)

One == <<1, 1>>
Half == <<1, 2>>

\* param of PNet.__init__, RNet.__init__ and ONet.__init__:
\* <<cls_factor, box_factor, landmark_factor>>.
param(v) ==
    IF v = "PNet" THEN <<One, Half, Half>>
    ELSE IF v = "RNet" THEN <<One, Half, Half>>
    ELSE <<One, Half, One>>

\* Attributes __init__ sets only when is_train.
TrainAttrs == {"cls_factor", "box_factor", "land_factor",
               "loss_cls", "loss_box", "loss_landmark"}

\* A factor that was never assigned.
Unset == <<0, 0>>

\* weights_init applied to every layer: one pass over the parameters.
weights_init == <<"weights_init">>

\* _init_net of the variant: the layer graph is built; ONet's ends with its
\* own self.apply(weights_init).
init_net(v) ==
    IF v = "ONet" THEN <<"layers">> \o weights_init ELSE <<"layers">>

\* Number of weights_init passes in a trace of constructor events.
InitPasses(tr) == Cardinality({i \in 1..Len(tr) : tr[i] = "weights_init"})

\* A constructor that never calls self.eval().
training_mode_kept(it) == TRUE

\* The mode at the end of __init__: training starts TRUE (nn.Module) and
\* self.eval() clears it when not is_train.
training_mode(it) == IF ~it THEN FALSE ELSE TRUE

\* _Net.__init__(cls_factor, box_factor, landmark_factor, is_train, device):
\* the attributes of the constructed object and the trace of its steps.
Net_init(v, cf, bf, lf, it, dev) ==
    LET tr == init_net(v) \o <<"init_net_return">>
              \o (IF it THEN <<"losses">> ELSE <<>>)
              \o weights_init
              \o <<"to">>
              \o (IF ~it THEN <<"eval">> ELSE <<>>)
    IN  [variant |-> v, is_train |-> it, device |-> dev,
         attrs |-> IF it THEN TrainAttrs ELSE {},
         cls_factor |-> IF it THEN cf ELSE Unset,
         box_factor |-> IF it THEN bf ELSE Unset,
         land_factor |-> IF it THEN lf ELSE Unset,
         loss_cls |-> IF it THEN "BCELoss" ELSE "unset",
         loss_box |-> IF it THEN "MSELoss" ELSE "unset",
         loss_landmark |-> IF it THEN "MSELoss" ELSE "unset",
         training |-> training_mode(it),
         trace |-> tr,
         params |-> InitPasses(tr)]

\* Keyword arguments a caller may pass to a variant's constructor.
FactorKw == {"cls_factor", "box_factor", "landmark_factor"}
KwNames == FactorKw \cup {"is_train", "device"}

\* Python's binding of super().__init__(*param, **kwargs): a keyword that
\* names a parameter already bound positionally is a TypeError.
BindError(kw) == IF kw.keys \cap FactorKw # {} THEN "TypeError" ELSE "none"

\* Abstract images and the outputs of the three heads for each.
Images == 1..3
ClsHead(img) == IF img = 2 THEN 3 ELSE 1
BoxHead(img) == IF img = 2 THEN <<1, 0, -1, 0>> ELSE <<0, 0, 0, 0>>
LandHead(img) ==
    IF img = 1 THEN <<0, 0, 0, 0, 0, 0, 0, 0, 0, 0>>
    ELSE IF img = 2 THEN <<1, 0, 0, 0, 0, 0, 0, 0, 0, -1>>
    ELSE <<0, 1, 0, 0, 0, 0, 0, 0, 0, 0>>

\* forward(x): <<label, offset, landmarks>>, one row per image.
forward(x) ==
    [label |-> [i \in 1..Len(x) |-> <<ClsHead(x[i])>>],
     offset |-> [i \in 1..Len(x) |-> BoxHead(x[i])],
     landmarks |-> [i \in 1..Len(x) |-> LandHead(x[i])]]

\* A classification mask that keeps the positives only (label >= 1).
cls_mask_positive(gt_label) == ge(squeeze(gt_label), 1)

\* cls_loss: the mask of the labels >= 0.
cls_mask(gt_label) == ge(squeeze(gt_label), 0)

cls_loss(self, gt_label, pred_label) ==
    LET mask == cls_mask(gt_label)
        valid_gt_label == masked_select(squeeze(gt_label), mask)
        valid_pred_label == masked_select(squeeze(pred_label), mask)
    IN  Mul(BCELoss(valid_pred_label, valid_gt_label), self.cls_factor)

\* A box mask that keeps the positives only (label >= 1).
box_mask_positive(gt_label) == ge(squeeze(gt_label), 1)

\* box_loss: unmask marks the labels = 0, the mask its complement.
box_mask(gt_label) == eq(eq(squeeze(gt_label), 0), 0)

box_loss(self, gt_label, gt_offset, pred_offset) ==
    LET chose_index == nonzero(box_mask(gt_label))
        valid_gt_offset == rows(squeeze(gt_offset), chose_index)
        valid_pred_offset == rows(squeeze(pred_offset), chose_index)
    IN  Mul(MSELoss(valid_pred_offset, valid_gt_offset, BoxDim), self.box_factor)

\* A landmark mask that keeps every negative label (-1 as well as -2).
landmark_mask_negative(gt_label) == eq(ge(squeeze(gt_label), 0), 0)

\* landmark_loss: the mask of the labels = -2.
landmark_mask(gt_label) == eq(squeeze(gt_label), -2)

landmark_loss(self, gt_label, gt_landmark, pred_landmark) ==
    LET chose_index == nonzero(landmark_mask(gt_label))
        valid_gt_landmark == rows(squeeze(gt_landmark), chose_index)
        valid_pred_landmark == rows(squeeze(pred_landmark), chose_index)
    IN  Mul(MSELoss(valid_pred_landmark, valid_gt_landmark, LandDim),
            self.land_factor)

\* The arguments of a get_loss call.
loss_args(x, gt_label, gt_boxes, gt_landmarks) ==
    [op |-> "get_loss", x |-> x, gt_label |-> gt_label,
     gt_boxes |-> gt_boxes, gt_landmarks |-> gt_landmarks]

\* A get_loss call that raised: the steps it ran and the error.
raised(steps, error) ==
    [steps |-> steps, error |-> error, returned |-> FALSE,
     cls_loss |-> NaN, box_loss |-> NaN, value |-> NaN]

\* A get_loss that also adds the landmark loss to the sum.
compose_loss_with_landmark(self, x, gt_label, gt_boxes, gt_landmarks) ==
    LET out == forward(x)
        pred_label == view(out.label, 1)
        pred_offset == view(out.offset, BoxDim)
        pred_landmarks == view(out.landmarks, LandDim)
        cls == cls_loss(self, gt_label, pred_label)
        box == box_loss(self, gt_label, gt_boxes, pred_offset)
        land == landmark_loss(self, gt_label, gt_landmarks, pred_landmarks)
    IN  loss_args(x, gt_label, gt_boxes, gt_landmarks)
        @@ [steps |-> <<"forward", "cls_loss", "box_loss", "landmark_loss">>,
            error |-> "none", returned |-> TRUE,
            cls_loss |-> cls, box_loss |-> box,
            value |-> Add(Add(Mul(cls, self.cls_factor),
                              Mul(box, self.box_factor)),
                          Mul(land, self.land_factor))]

\* get_loss after its mode check: the forward pass, the reshapes, the two
\* losses (the locals cls_loss and box_loss) and the returned sum.
compose_loss(self, x, gt_label, gt_boxes, gt_landmarks) ==
    LET out == forward(x)
        pred_label == view(out.label, 1)
        pred_offset == view(out.offset, BoxDim)
        pred_landmarks == view(out.landmarks, LandDim)
        cls == cls_loss(self, gt_label, pred_label)
        box == box_loss(self, gt_label, gt_boxes, pred_offset)
    IN  loss_args(x, gt_label, gt_boxes, gt_landmarks)
        @@ [steps |-> <<"forward", "cls_loss", "box_loss">>,
            error |-> "none", returned |-> TRUE,
            cls_loss |-> cls, box_loss |-> box,
            value |-> Add(Mul(cls, self.cls_factor),
                          Mul(box, self.box_factor))]

\* A get_loss without the is_train check: on an inference network the
\* forward pass runs and cls_loss fails on the missing self.loss_cls.
get_loss_unguarded(self, x, gt_label, gt_boxes, gt_landmarks) ==
    IF {"loss_cls", "cls_factor"} \subseteq self.attrs
    THEN compose_loss(self, x, gt_label, gt_boxes, gt_landmarks)
    ELSE loss_args(x, gt_label, gt_boxes, gt_landmarks)
         @@ raised(<<"forward", "cls_loss">>, "AttributeError")

\* get_loss(x, gt_label, gt_boxes, gt_landmarks): the record of the call,
\* with the steps it ran, its locals, and the error raised or value returned.
get_loss(self, x, gt_label, gt_boxes, gt_landmarks) ==
    IF ~self.is_train
    THEN loss_args(x, gt_label, gt_boxes, gt_landmarks)
         @@ raised(<<>>, "AssertionError")
    ELSE compose_loss(self, x, gt_label, gt_boxes, gt_landmarks)

----------------------------------------------------------------------------
(* Callers' inputs                                                         *)

\* The batch of N rows that alternates a, b, a, ...
Alt(N, a, b) == [i \in 1..N |-> IF i % 2 = 1 THEN a ELSE b]

LabelBatches(N) == [1..N -> {<<l>> : l \in Labels}]
XBatches(N) == {Alt(N, a, b) : a, b \in Images}

BoxRowA == <<0, 0, 0, 0>>
BoxRowB == <<1, 1, 0, 0>>
BoxRows == {BoxRowA, BoxRowB}
BoxBatches(N) == {Alt(N, a, b) : a, b \in BoxRows}

LandRowA == <<0, 0, 0, 0, 0, 0, 0, 0, 0, 0>>
LandRowB == <<1, 0, 0, 0, 0, 0, 0, 0, 0, 1>>
LandRows == {LandRowA, LandRowB}
LandBatches(N) == {Alt(N, a, b) : a, b \in LandRows}

\* Keyword arguments: a key that is absent carries the default of
\* _Net.__init__'s signature.
KwArgs ==
    {kw \in [keys : SUBSET KwNames, cls_factor : {One, <<2, 1>>},
             box_factor : {One, <<2, 1>>}, landmark_factor : {One, <<2, 1>>},
             is_train : BOOLEAN, device : Devices] :
        /\ "cls_factor" \notin kw.keys => kw.cls_factor = One
        /\ "box_factor" \notin kw.keys => kw.box_factor = One
        /\ "landmark_factor" \notin kw.keys => kw.landmark_factor = One
        /\ "is_train" \notin kw.keys => kw.is_train = FALSE
        /\ "device" \notin kw.keys => kw.device = "cpu"}

----------------------------------------------------------------------------
(* State and operations                                                    *)

VARIABLES pc, variant, is_train, device, training, attrs,
          cls_factor, box_factor, land_factor,
          loss_cls, loss_box, loss_landmark, trace, params, call

net == <<variant, is_train, device, training, attrs, cls_factor, box_factor,
         land_factor, loss_cls, loss_box, loss_landmark, trace, params>>
vars == <<pc, net, call>>

\* The attributes of self the loss methods read.
Self == [is_train |-> is_train, attrs |-> attrs, cls_factor |-> cls_factor,
         box_factor |-> box_factor, land_factor |-> land_factor]

\* The caller holds no tensors of an earlier call.
Idle == call.op = "idle"

Init ==
    /\ pc = "none"
    /\ variant = "none" /\ is_train = FALSE /\ device = "none"
    /\ training = FALSE /\ attrs = {}
    /\ cls_factor = Unset /\ box_factor = Unset /\ land_factor = Unset
    /\ loss_cls = "unset" /\ loss_box = "unset" /\ loss_landmark = "unset"
    /\ trace = <<>> /\ params = 0
    /\ call = [op |-> "idle"]

\* PNet(**kwargs), RNet(**kwargs), ONet(**kwargs).
Construct ==
    /\ pc = "none" /\ Idle
    /\ \E v \in Variants, kw \in KwArgs :
        /\ call' = [op |-> "construct", variant |-> v, kw |-> kw,
                    error |-> BindError(kw)]
        /\ IF BindError(kw) # "none"
           THEN UNCHANGED <<pc, net>>
           ELSE LET p == param(v)
                    obj == Net_init(v, p[1], p[2], p[3], kw.is_train, kw.device)
                IN  /\ pc' = "live"
                    /\ variant' = obj.variant
                    /\ is_train' = obj.is_train
                    /\ device' = obj.device
                    /\ training' = obj.training
                    /\ attrs' = obj.attrs
                    /\ cls_factor' = obj.cls_factor
                    /\ box_factor' = obj.box_factor
                    /\ land_factor' = obj.land_factor
                    /\ loss_cls' = obj.loss_cls
                    /\ loss_box' = obj.loss_box
                    /\ loss_landmark' = obj.loss_landmark
                    /\ trace' = obj.trace
                    /\ params' = obj.params

\* net.forward(x), net(x).
Forward ==
    /\ pc = "live" /\ Idle
    /\ \E N \in BatchSizes : \E x \in XBatches(N) :
        call' = [op |-> "forward", x |-> x, out |-> forward(x),
                 error |-> "none"]
    /\ UNCHANGED <<pc, net>>

\* net.get_loss(x, gt_label, gt_boxes, gt_landmarks).
GetLoss ==
    /\ pc = "live" /\ Idle
    /\ \E N \in BatchSizes :
          \E x \in XBatches(N), gt_label \in LabelBatches(N),
             gt_boxes \in BoxBatches(N), gt_landmarks \in LandBatches(N) :
             call' = get_loss(Self, x, gt_label, gt_boxes, gt_landmarks)
    /\ UNCHANGED <<pc, net>>

\* net.landmark_loss(gt_label, gt_landmark, pred_landmark); self.loss_landmark
\* and self.land_factor exist only on a training network.
LandmarkLoss ==
    /\ pc = "live" /\ Idle
    /\ \E N \in BatchSizes :
          \E gt_label \in LabelBatches(N), gt_landmark \in LandBatches(N),
             x \in XBatches(N) :
             LET pred_landmark == forward(x).landmarks IN
             call' = [op |-> "landmark_loss", gt_label |-> gt_label,
                      gt_landmark |-> gt_landmark,
                      pred_landmark |-> pred_landmark]
                     @@ IF {"loss_landmark", "land_factor"} \subseteq attrs
                        THEN [error |-> "none", returned |-> TRUE,
                              value |-> landmark_loss(Self, gt_label,
                                                      gt_landmark, pred_landmark)]
                        ELSE [error |-> "AttributeError", returned |-> FALSE,
                              value |-> NaN]
    /\ UNCHANGED <<pc, net>>

\* The caller consumes the outcome of the call and releases its tensors.
Drop ==
    /\ ~Idle
    /\ call' = [op |-> "idle"]
    /\ UNCHANGED <<pc, net>>

Next == Construct \/ Forward \/ GetLoss \/ LandmarkLoss \/ Drop

Spec == Init /\ [][Next]_vars

----------------------------------------------------------------------------
(* Properties                                                              *)

\* A get_loss call has returned or raised on a training-mode network.
TrainLossCall == pc = "live" /\ is_train /\ call.op = "get_loss"

\* C1: on a network of any variant built with is_train=False, get_loss
\* raises the AssertionError of its mode check before the forward pass or a
\* loss function runs, and returns no value.
C1_InvalidMode ==
    (pc = "live" /\ ~is_train /\ call.op = "get_loss") =>
        /\ call.error = "AssertionError"
        /\ call.steps = <<>>
        /\ ~call.returned

C1_Witness ==
    /\ pc = "live" /\ ~is_train /\ variant = "ONet"
    /\ call.op = "get_loss" /\ call.error = "AssertionError"

\* C2 (as claimed): with the batch and the predictions fixed, doubling
\* cls_factor doubles the classification term of the scalar get_loss returns
\* and leaves the box term unchanged.
C2_DoublingDoubles ==
    TrainLossCall =>
        LET twice == [Self EXCEPT !.cls_factor = <<2 * cls_factor[1], cls_factor[2]>>]
            again == get_loss(twice, call.x, call.gt_label, call.gt_boxes,
                              call.gt_landmarks)
        IN  /\ Same(Mul(again.cls_loss, twice.cls_factor),
                    Mul(Mul(call.cls_loss, cls_factor), <<2, 1>>))
            /\ Same(Mul(again.box_loss, twice.box_factor),
                    Mul(call.box_loss, box_factor))

C4_ClsLossMask ==
    TrainLossCall =>
        LET N == Len(call.x)
            gt == [i \in 1..N |-> call.gt_label[i][1]]
            pr == [i \in 1..N |-> ClsHead(call.x[i])]
            S == {i \in 1..N : gt[i] >= 0}
            mean == IF S = {} THEN NaN
                    ELSE Real(SumTo([i \in 1..N |-> IF i \in S
                                        THEN BCETerm(pr[i], gt[i])[1] ELSE 0], N),
                              SumTo([i \in 1..N |-> IF i \in S
                                        THEN BCETerm(pr[i], gt[i])[2] ELSE 0], N),
                              0, Cardinality(S))
        IN  /\ Same(call.cls_loss, Mul(mean, cls_factor))
            /\ \A i \in (1..N) \ S, l \in {m \in Labels : m < 0}, img \in Images :
                 Same(cls_loss(Self, [call.gt_label EXCEPT ![i] = <<l>>],
                               forward([call.x EXCEPT ![i] = img]).label),
                      call.cls_loss)

C4_Witness ==
    /\ TrainLossCall /\ ~call.cls_loss.nan
    /\ \E i, j \in 1..Len(call.x) :
         /\ call.gt_label[i][1] = -1 /\ call.gt_label[j][1] = 1
         /\ call.x[i] # call.x[j]

C6_LabelRoles ==
    TrainLossCall =>
        \A i \in 1..Len(call.gt_label) :
            LET l == call.gt_label[i][1]
                in_cls == cls_mask(call.gt_label)[i] = 1
                in_box == box_mask(call.gt_label)[i] = 1
                in_land == landmark_mask(call.gt_label)[i] = 1
            IN  /\ l = -2 => (in_land /\ ~in_cls /\ ~in_box)
                /\ l = 0 => (in_cls /\ ~in_box /\ ~in_land)
                /\ l = 1 => (in_cls /\ in_box /\ ~in_land)

C8_InitOnce ==
    pc = "live" =>
        /\ InitPasses(trace) = 1
        /\ params = 1
        /\ \A i, j \in 1..Len(trace) :
             /\ (trace[i] = "init_net_return" /\ trace[j] = "weights_init") => i < j
             /\ (trace[i] = "weights_init" /\ trace[j] \in {"to", "eval"}) => i < j

\* C9 (as claimed): constructing a variant with caller-supplied factors
\* succeeds, a supplied factor is the one the network uses, and an omitted
\* one takes the variant's default.
C9_FactorsAccepted ==
    call.op = "construct" =>
        /\ call.error = "none"
        /\ pc = "live"
        /\ is_train =>
             /\ cls_factor = IF "cls_factor" \in call.kw.keys
                             THEN call.kw.cls_factor ELSE param(call.variant)[1]
             /\ box_factor = IF "box_factor" \in call.kw.keys
                             THEN call.kw.box_factor ELSE param(call.variant)[2]
             /\ land_factor = IF "landmark_factor" \in call.kw.keys
                              THEN call.kw.landmark_factor
                              ELSE param(call.variant)[3]

\* C10: the mode of a network is the one its constructor's is_train flag
\* fixes: it is in inference mode iff is_train is false, the three loss
\* objects and the three factors exist iff is_train is true, and no later
\* call changes the flag, the mode or the attributes.
C10_ModeFixed ==
    /\ [](pc = "live" =>
            /\ training <=> is_train
            /\ (TrainAttrs \subseteq attrs) <=> is_train
            /\ (TrainAttrs \cap attrs = {}) <=> ~is_train
            /\ is_train => /\ loss_cls = "BCELoss"
                           /\ loss_box = "MSELoss"
                           /\ loss_landmark = "MSELoss"
            /\ (call.op = "construct") => is_train = call.kw.is_train)
    /\ [][pc = "live" => /\ is_train' = is_train
                         /\ training' = training
                         /\ attrs' = attrs]_vars

C10_Witness ==
    /\ pc = "live" /\ ~is_train /\ ~training
    /\ call.op = "forward" /\ variant = "PNet"

====
